---- MODULE Spec2Model ----
(***************************************************************************)
(* Model of src/main.py, the Backend Developer Portfolio API: six routes   *)
(* over two module-level lists (PROJECTS, EXPERIENCE), an optional         *)
(* persistence module `database` that is imported inside the handlers,     *)
(* and the process environment.                                            *)
(*                                                                         *)
(* One action per route.  An action handles one whole request: it draws    *)
(* the request body, the behaviour of the `database` module during that    *)
(* request and the environment from small sets, runs the handler, and      *)
(* records the request, the response and the log of every use the handler  *)
(* made of the persistence module.                                         *)
(*                                                                         *)
(* Conventions.  Text whose length the code inspects is a sequence of      *)
(* one-character strings.  Python's None is the string "None".  The        *)
(* pictographs that open the diagnostic strings of test_database are       *)
(* left out of the string literals; the wording after them is kept.        *)
(* A formatted string f"<label>{detail}" is the record                     *)
(* [label |-> ..., detail |-> ...].  Exceptions are the subclasses of      *)
(* Exception the collaborator can raise.                                   *)
(***************************************************************************)
EXTENDS Naturals, Sequences, FiniteSets

VARIABLES PROJECTS, EXPERIENCE, request, response, calls

vars == <<PROJECTS, EXPERIENCE, request, response, calls>>

(***************************************************************************)
(* Program constants.                                                      *)
(***************************************************************************)
NameMinLength == 2
NameMaxLength == 100
MessageMinLength == 10
MessageMaxLength == 2000
MaxCollectionsShown == 10
ErrorTextLimit == 50

(***************************************************************************)
(* Bounds of the model: lengths are drawn from the neighbourhood of width  *)
(* Slack around 0 and around each limit of the code.                       *)
(***************************************************************************)
Slack == 1

None == "None"

Min(a, b) == IF a <= b THEN a ELSE b

Around(n) == {k \in 0..(n + Slack) : k + Slack >= n}

\* A text of n characters.
Text(n) == [i \in 1..n |-> "x"]

(***************************************************************************)
(* The static catalog, as declared.                                        *)
(***************************************************************************)
PROJECTS_DECL ==
    << [title |-> "Scalable Task Queue with Distributed Workers",
        description |-> "Built a Celery + RabbitMQ based task processing system with autoscaling workers, metrics, and retries.",
        stack |-> <<"Python", "FastAPI", "Celery", "RabbitMQ", "Docker", "Prometheus">>,
        github |-> "https://github.com/example/scalable-task-queue",
        api_docs |-> None],
       [title |-> "API Gateway & Auth Service",
        description |-> "Kong gateway with JWT auth service, rate limiting, and observability integrated.",
        stack |-> <<"Kong", "PostgreSQL", "Redis", "Go", "Docker", "Grafana">>,
        github |-> "https://github.com/example/api-gateway-auth",
        api_docs |-> "https://api.example.com/docs"],
       [title |-> "Event-Driven Microservices",
        description |-> "Microservices communicating via Kafka with schema registry and idempotent consumers.",
        stack |-> <<"Node.js", "TypeScript", "Kafka", "PostgreSQL", "Docker", "Kubernetes">>,
        github |-> "https://github.com/example/event-driven-services",
        api_docs |-> None] >>

EXPERIENCE_DECL ==
    << [title |-> "Open-source Contributor",
        organization |-> "FastAPI Ecosystem",
        period |-> "2022 - Present",
        description |-> "Contributed bug fixes and performance tweaks, improved docs, and triaged issues.",
        tags |-> <<"FastAPI", "Open Source", "Performance">>],
       [title |-> "Freelance Backend Developer",
        organization |-> "Remote",
        period |-> "2021 - 2024",
        description |-> "Delivered APIs, database schemas, and deployment pipelines for startups and solo founders.",
        tags |-> <<"APIs", "Databases", "CI/CD">>],
       [title |-> "Personal Projects",
        organization |-> "Various",
        period |-> "Ongoing",
        description |-> "R&D on distributed systems, caching strategies, and resilience patterns.",
        tags |-> <<"Kafka", "Caching", "Resilience">>] >>

(***************************************************************************)
(* Exceptions.  ImportError is a subclass of Exception; AttributeError     *)
(* and RuntimeError are subclasses of Exception that are not ImportError.  *)
(***************************************************************************)
NoExc == [type |-> "none", msg |-> <<>>]

Raised(e) == e.type # "none"

IsImportError(e) == e.type \in {"ImportError", "ModuleNotFoundError"}

IsAttributeError(e) == e.type = "AttributeError"

IsException(e) == Raised(e)

\* str(e) for an exception whose message has n characters.
ErrChar(i) == IF i % 3 = 0 THEN "c" ELSE IF i % 3 = 1 THEN "a" ELSE "b"

ErrMsg(n) == [i \in 1..n |-> ErrChar(i)]

ErrMsgs == {ErrMsg(n) : n \in Around(0) \cup Around(ErrorTextLimit)}

Exc(t, m) == [type |-> t, msg |-> m]


(***************************************************************************)
(* ContactMessage: the request body of POST /api/contact, validated        *)
(* before submit_contact runs.  A body is a function from the fields it    *)
(* carries to their text; a field it does not carry is missing.            *)
(***************************************************************************)
Fields == <<"name", "email", "message">>

\* EmailStr: one "@", a dot-atom before it, a dotted domain after it.
DotAtom(p) ==
    /\ Len(p) > 0
    /\ p[1] # "."
    /\ p[Len(p)] # "."
    /\ \A i \in 1..(Len(p) - 1) : ~(p[i] = "." /\ p[i + 1] = ".")
    /\ \A i \in 1..Len(p) : p[i] # "@" /\ p[i] # " "

EmailStr(s) ==
    \E at \in 1..Len(s) :
        /\ s[at] = "@"
        /\ DotAtom(SubSeq(s, 1, at - 1))
        /\ DotAtom(SubSeq(s, at + 1, Len(s)))
        /\ \E i \in (at + 1)..Len(s) : s[i] = "."

FieldValid_NameOffByOne(c, f) ==
    /\ f \in DOMAIN c
    /\ CASE f = "name" -> Len(c[f]) >= NameMinLength - 1 /\ Len(c[f]) <= NameMaxLength
         [] f = "email" -> EmailStr(c[f])
         [] f = "message" -> Len(c[f]) >= MessageMinLength /\ Len(c[f]) <= MessageMaxLength

\* The constraint of one field of ContactMessage.
FieldValid(c, f) ==
    /\ f \in DOMAIN c
    /\ CASE f = "name" -> Len(c[f]) >= NameMinLength /\ Len(c[f]) <= NameMaxLength
         [] f = "email" -> EmailStr(c[f])
         [] f = "message" -> Len(c[f]) >= MessageMinLength /\ Len(c[f]) <= MessageMaxLength

ErrorOf(c, f) == IF FieldValid(c, f) THEN <<>> ELSE <<f>>

ValidationErrors_FirstOnly(c) ==
    IF ErrorOf(c, "name") # <<>> THEN ErrorOf(c, "name")
    ELSE IF ErrorOf(c, "email") # <<>> THEN ErrorOf(c, "email")
    ELSE ErrorOf(c, "message")

\* The fields the validation error of a body lists, in declaration order.
ValidationErrors(c) ==
    ErrorOf(c, "name") \o ErrorOf(c, "email") \o ErrorOf(c, "message")

(***************************************************************************)
(* submit_contact.  collab is what the `database` module does during the   *)
(* request: what the import raises, what create_document raises, what it   *)
(* returns.                                                                *)
(***************************************************************************)
ImportCreate == "from database import create_document"

CallCreate == "create_document"

\* The body of the try statement: the exception it ends with, if any.
submit_contact_try(payload, collab) ==
    IF Raised(collab.import_raises)
    THEN [exc |-> collab.import_raises, stored_id |-> None,
          calls |-> <<ImportCreate>>]
    ELSE IF Raised(collab.create_raises)
    THEN [exc |-> collab.create_raises, stored_id |-> None,
          calls |-> <<ImportCreate, CallCreate>>]
    ELSE [exc |-> NoExc, stored_id |-> collab.create_returns,
          calls |-> <<ImportCreate, CallCreate>>]

Returns(value, log) == [raised |-> FALSE, exc |-> NoExc, value |-> value, calls |-> log]

Propagates(e, log) == [raised |-> TRUE, exc |-> e, value |-> None, calls |-> log]

submit_contact_NoExcept(payload, collab) ==
    LET t == submit_contact_try(payload, collab)
    IN  IF Raised(t.exc) THEN Propagates(t.exc, t.calls)
        ELSE Returns([status |-> "ok", stored_id |-> t.stored_id], t.calls)

submit_contact_DropsId(payload, collab) ==
    LET t == submit_contact_try(payload, collab)
    IN  Returns([status |-> "ok", stored_id |-> None], t.calls)

submit_contact_Retries(payload, collab) ==
    LET t == submit_contact_try(payload, collab)
        again == submit_contact_try(payload, collab)
    IN  IF Raised(t.exc) /\ IsException(t.exc)
        THEN Returns([status |-> "ok",
                      stored_id |-> IF Raised(again.exc) THEN None ELSE again.stored_id],
                     t.calls \o again.calls)
        ELSE Returns([status |-> "ok", stored_id |-> t.stored_id], t.calls)

submit_contact(payload, collab) ==
    LET t == submit_contact_try(payload, collab)
    IN  IF Raised(t.exc) /\ IsException(t.exc)
        THEN Returns([status |-> "ok", stored_id |-> None], t.calls)
        ELSE IF Raised(t.exc)
        THEN Propagates(t.exc, t.calls)
        ELSE Returns([status |-> "ok", stored_id |-> t.stored_id], t.calls)

(***************************************************************************)
(* What the framework sends for a handler's outcome.                       *)
(***************************************************************************)
Send(outcome) ==
    IF outcome.raised
    THEN [code |-> 500, body |-> "Internal Server Error"]
    ELSE [code |-> 200, body |-> outcome.value]

Unprocessable(errors) == [code |-> 422, body |-> [detail |-> errors]]


(***************************************************************************)
(* test_database.  collab is what the `database` module does during the    *)
(* request: what the import raises, whether db is None, what reading       *)
(* db.name raises and gives, what db.list_collection_names() raises and    *)
(* returns.  environ is the process environment.                           *)
(***************************************************************************)
ImportDb == "from database import db"

HasAttrName == "hasattr(db, 'name')"

ReadName == "db.name"

CallList == "db.list_collection_names"

Plain(text) == [label |-> text, detail |-> <<>>]

Truncate_Whole(text) == text

\* str(e)[:50]
Truncate(text) == SubSeq(text, 1, Min(ErrorTextLimit, Len(text)))

FirstCollections_All(collections) == collections

\* collections[:10]
FirstCollections(collections) ==
    SubSeq(collections, 1, Min(MaxCollectionsShown, Len(collections)))

InitialResponse ==
    [backend |-> "Running",
     database |-> Plain("Not Available"),
     database_url |-> None,
     database_name |-> None,
     connection_status |-> "Not Connected",
     collections |-> <<>>]

\* os.getenv(key) is truthy: the variable is set and its value is not empty.
Truthy(value) == value # None /\ value # ""

\* The body of the outer try statement: the response dictionary as it has
\* been written so far, and the exception the body ends with, if any.
test_database_try(collab) ==
    IF Raised(collab.import_raises)
    THEN [exc |-> collab.import_raises, response |-> InitialResponse,
          calls |-> <<ImportDb>>]
    ELSE IF collab.db_is_none
    THEN [exc |-> NoExc,
          response |-> [InitialResponse EXCEPT
                            !.database = Plain("Available but not initialized")],
          calls |-> <<ImportDb>>]
    ELSE
        LET r1 == [InitialResponse EXCEPT !.database = Plain("Available"),
                                          !.database_url = "Configured"]
            hasName == ~Raised(collab.name_raises)
        IN  IF Raised(collab.name_raises) /\ ~IsAttributeError(collab.name_raises)
            THEN [exc |-> collab.name_raises, response |-> r1,
                  calls |-> <<ImportDb, HasAttrName>>]
            ELSE
                LET r2 == [r1 EXCEPT
                              !.database_name =
                                  IF hasName THEN collab.name ELSE "Connected",
                              !.connection_status = "Connected"]
                    log == IF hasName
                           THEN <<ImportDb, HasAttrName, ReadName, CallList>>
                           ELSE <<ImportDb, HasAttrName, CallList>>
                IN  IF Raised(collab.list_raises) /\ IsException(collab.list_raises)
                    THEN [exc |-> NoExc,
                          response |-> [r2 EXCEPT !.database =
                              [label |-> "Connected but Error: ",
                               detail |-> Truncate(collab.list_raises.msg)]],
                          calls |-> log]
                    ELSE IF Raised(collab.list_raises)
                    THEN [exc |-> collab.list_raises, response |-> r2, calls |-> log]
                    ELSE [exc |-> NoExc,
                          response |-> [r2 EXCEPT
                              !.collections = FirstCollections(collab.list_returns),
                              !.database = Plain("Connected & Working")],
                          calls |-> log]

test_database_probe_NoGenericExcept(collab) ==
    LET t == test_database_try(collab)
    IN  IF Raised(t.exc) /\ IsImportError(t.exc)
        THEN Returns([t.response EXCEPT !.database =
                 Plain("Database module not found (run enable-database first)")],
                 t.calls)
        ELSE IF Raised(t.exc)
        THEN Propagates(t.exc, t.calls)
        ELSE Returns(t.response, t.calls)

\* The outer try statement with its two except clauses.
test_database_probe(collab) ==
    LET t == test_database_try(collab)
    IN  IF Raised(t.exc) /\ IsImportError(t.exc)
        THEN Returns([t.response EXCEPT !.database =
                 Plain("Database module not found (run enable-database first)")],
                 t.calls)
        ELSE IF Raised(t.exc) /\ IsException(t.exc)
        THEN Returns([t.response EXCEPT !.database =
                 [label |-> "Error: ", detail |-> Truncate(t.exc.msg)]],
                 t.calls)
        ELSE IF Raised(t.exc)
        THEN Propagates(t.exc, t.calls)
        ELSE Returns(t.response, t.calls)

test_database_KeepsProbeValues(collab, environ) ==
    test_database_probe(collab)

test_database(collab, environ) ==
    LET p == test_database_probe(collab)
    IN  IF p.raised THEN p
        ELSE Returns([p.value EXCEPT
                 !.database_url =
                     IF Truthy(environ.DATABASE_URL) THEN "Set" ELSE "Not Set",
                 !.database_name =
                     IF Truthy(environ.DATABASE_NAME) THEN "Set" ELSE "Not Set"],
                 p.calls)


(***************************************************************************)
(* The inputs of the requests.                                             *)
(***************************************************************************)
NameTexts ==
    {Text(n) : n \in Around(NameMinLength) \cup Around(NameMaxLength)}

MessageTexts ==
    {Text(n) : n \in Around(MessageMinLength) \cup Around(MessageMaxLength)}

EmailTexts ==
    { <<"j", "o", "@", "x", ".", "c", "o", "m">>,
      <<"a", ".", "b", "@", "x", ".", "i", "o">>,
      <<"n", "o", "t", "-", "a", "n", "-", "e", "m", "a", "i", "l">>,
      <<"j", "o", "@", "x">>,
      <<>> }

FullBodies == [name : NameTexts, email : EmailTexts, message : MessageTexts]

\* Every body that carries some of the three fields.
Candidates ==
    {[f \in S |-> b[f]] : S \in SUBSET {"name", "email", "message"}, b \in FullBodies}

FixedMsg == ErrMsg(ErrorTextLimit)

SubmitCollabs ==
    {[import_raises |-> e, create_raises |-> NoExc, create_returns |-> None] :
        e \in {Exc("ModuleNotFoundError", FixedMsg), Exc("RuntimeError", FixedMsg)}}
    \cup
    {[import_raises |-> NoExc, create_raises |-> e, create_returns |-> None] :
        e \in {Exc("RuntimeError", FixedMsg)}}
    \cup
    {[import_raises |-> NoExc, create_raises |-> NoExc, create_returns |-> v] :
        v \in {"65f1c0ffee", "65f2c0ffee", None}}

NotConsulted ==
    [import_raises |-> NoExc, create_raises |-> NoExc, create_returns |-> None]

CollectionTable ==
    <<"message", "users", "projects", "sessions", "logs", "events", "tags",
      "audit", "jobs", "files", "metrics", "tokens", "drafts">>

CollectionNames(n) ==
    [i \in 1..n |-> CollectionTable[((i - 1) % Len(CollectionTable)) + 1]]

CollectionLists == {CollectionNames(n) : n \in Around(0) \cup Around(MaxCollectionsShown)}

MessageExcs == {Exc("RuntimeError", m) : m \in ErrMsgs}

NoDb ==
    [import_raises |-> NoExc, db_is_none |-> TRUE, name_raises |-> NoExc,
     name |-> None, list_raises |-> NoExc, list_returns |-> <<>>]

TestCollabs ==
    {[NoDb EXCEPT !.import_raises = e] :
        e \in {Exc("ModuleNotFoundError", FixedMsg), Exc("ImportError", FixedMsg)}
              \cup MessageExcs}
    \cup {NoDb}
    \cup
    {[NoDb EXCEPT !.db_is_none = FALSE, !.name_raises = e] :
        e \in {Exc("ImportError", FixedMsg)} \cup MessageExcs}
    \cup
    {[NoDb EXCEPT !.db_is_none = FALSE, !.name_raises = n[1], !.name = n[2],
                  !.list_raises = e] :
        n \in {<<NoExc, "portfolio">>, <<Exc("AttributeError", FixedMsg), None>>},
        e \in {Exc("ImportError", FixedMsg)} \cup MessageExcs}
    \cup
    {[NoDb EXCEPT !.db_is_none = FALSE, !.name_raises = n[1], !.name = n[2],
                  !.list_returns = l] :
        n \in {<<NoExc, "portfolio">>, <<Exc("AttributeError", FixedMsg), None>>},
        l \in CollectionLists}

Environs ==
    [DATABASE_URL : {None, "", "mongodb://localhost:27017"},
     DATABASE_NAME : {None, "", "portfolio"}]

(***************************************************************************)
(* The state after the module is loaded, and the six routes.               *)
(***************************************************************************)
Init ==
    /\ PROJECTS = PROJECTS_DECL
    /\ EXPERIENCE = EXPERIENCE_DECL
    /\ request = [method |-> "none", route |-> "none"]
    /\ response = [code |-> 0, body |-> None]
    /\ calls = <<>>

read_root ==
    /\ request' = [method |-> "GET", route |-> "/"]
    /\ response' = Send(Returns([message |-> "Portfolio API running"], <<>>))
    /\ calls' = <<>>
    /\ UNCHANGED <<PROJECTS, EXPERIENCE>>

hello ==
    /\ request' = [method |-> "GET", route |-> "/api/hello"]
    /\ response' = Send(Returns([message |-> "Hello from the backend API!"], <<>>))
    /\ calls' = <<>>
    /\ UNCHANGED <<PROJECTS, EXPERIENCE>>

get_projects_Consumes ==
    /\ request' = [method |-> "GET", route |-> "/api/projects"]
    /\ response' = Send(Returns(PROJECTS, <<>>))
    /\ calls' = <<>>
    /\ PROJECTS' = IF PROJECTS = <<>> THEN PROJECTS ELSE Tail(PROJECTS)
    /\ UNCHANGED EXPERIENCE

get_projects ==
    /\ request' = [method |-> "GET", route |-> "/api/projects"]
    /\ response' = Send(Returns(PROJECTS, <<>>))
    /\ calls' = <<>>
    /\ UNCHANGED <<PROJECTS, EXPERIENCE>>

get_experience ==
    /\ request' = [method |-> "GET", route |-> "/api/experience"]
    /\ response' = Send(Returns(EXPERIENCE, <<>>))
    /\ calls' = <<>>
    /\ UNCHANGED <<PROJECTS, EXPERIENCE>>

\* POST /api/contact: the body is validated as a ContactMessage, and
\* submit_contact runs on a body that passes.
post_contact ==
    \E c \in Candidates :
        LET errors == ValidationErrors(c)
        IN  IF errors # <<>>
            THEN /\ request' = [method |-> "POST", route |-> "/api/contact",
                                body |-> c, collab |-> NotConsulted]
                 /\ response' = Unprocessable(errors)
                 /\ calls' = <<>>
                 /\ UNCHANGED <<PROJECTS, EXPERIENCE>>
            ELSE \E collab \in SubmitCollabs :
                    LET outcome == submit_contact(c, collab)
                    IN  /\ request' = [method |-> "POST", route |-> "/api/contact",
                                       body |-> c, collab |-> collab]
                        /\ response' = Send(outcome)
                        /\ calls' = outcome.calls
                        /\ UNCHANGED <<PROJECTS, EXPERIENCE>>

get_test ==
    \E collab \in TestCollabs, environ \in Environs :
        LET outcome == test_database(collab, environ)
        IN  /\ request' = [method |-> "GET", route |-> "/test",
                           collab |-> collab, environ |-> environ]
            /\ response' = Send(outcome)
            /\ calls' = outcome.calls
            /\ UNCHANGED <<PROJECTS, EXPERIENCE>>

Next ==
    \/ read_root
    \/ hello
    \/ get_projects
    \/ get_experience
    \/ post_contact
    \/ get_test

Spec == Init /\ [][Next]_vars


(***************************************************************************)
(* Vocabulary of the properties.  The constraints of a ContactMessage are  *)
(* restated here from the declaration, apart from the model's validation.  *)
(***************************************************************************)
IsContact == request.route = "/api/contact"

IsTest == request.route = "/test"

Violates(c, f) ==
    \/ f \notin DOMAIN c
    \/ f = "name" /\ (Len(c[f]) < 2 \/ Len(c[f]) > 100)
    \/ f = "email" /\ ~EmailStr(c[f])
    \/ f = "message" /\ (Len(c[f]) < 10 \/ Len(c[f]) > 2000)

Violated(c) == {f \in {"name", "email", "message"} : Violates(c, f)}

ValidContact(c) == Violated(c) = {}

Count(log, what) == Cardinality({i \in DOMAIN log : log[i] = what})

Elements(seq) == {seq[i] : i \in DOMAIN seq}

StoreAnswered(collab) == ~Raised(collab.import_raises) /\ ~Raised(collab.create_raises)

\* test_database got as far as calling db.list_collection_names().
ListReached(collab) ==
    /\ ~Raised(collab.import_raises)
    /\ ~collab.db_is_none
    /\ (Raised(collab.name_raises) => collab.name_raises.type = "AttributeError")

ModuleNotFound == "Database module not found (run enable-database first)"

\* C1: every valid contact submission is answered with status "ok", whatever
\* the persistence module does (absent, returning, raising); a failure of the
\* module never reaches the caller.
C1_ValidContactAlwaysOk ==
    (IsContact /\ ValidContact(request.body)) =>
        /\ response.code = 200
        /\ response.body.status = "ok"

C1_Witness ==
    /\ IsContact
    /\ ValidContact(request.body)
    /\ Raised(request.collab.create_raises)
    /\ response.code = 200
    /\ response.body.status = "ok"

\* C2: for a valid submission stored_id is the value create_document returned
\* when the module was imported and the call returned, and None when the
\* import or the call raised.
C2_StoredIdIsReturnedValueOrNone ==
    (IsContact /\ ValidContact(request.body)) =>
        /\ response.code = 200
        /\ response.body.stored_id =
               IF StoreAnswered(request.collab)
               THEN request.collab.create_returns
               ELSE None

C2_Witness ==
    /\ IsContact
    /\ ValidContact(request.body)
    /\ StoreAnswered(request.collab)
    /\ request.collab.create_returns = "65f2c0ffee"
    /\ response.body.stored_id = "65f2c0ffee"

\* C3: a submission in which some field violates its constraint or is missing
\* fails with a validation error, carries no status and no identifier, and
\* the persistence module is not touched for it.
C3_InvalidContactRejectedBeforeStore ==
    (IsContact /\ ~ValidContact(request.body)) =>
        /\ response.code = 422
        /\ "status" \notin DOMAIN response.body
        /\ "stored_id" \notin DOMAIN response.body
        /\ calls = <<>>

C3_Witness ==
    /\ IsContact
    /\ Violated(request.body) = {"name"}
    /\ "name" \in DOMAIN request.body
    /\ Len(request.body["name"]) = 1
    /\ response.code = 422
    /\ calls = <<>>

\* C4: the validation error lists exactly the fields that violate their
\* constraint, all of them and not only the first.
C4_ErrorListsEveryFailingField ==
    (IsContact /\ ~ValidContact(request.body)) =>
        /\ response.code = 422
        /\ Elements(response.body.detail) = Violated(request.body)

C4_Witness ==
    /\ IsContact
    /\ Violated(request.body) = {"name", "email", "message"}
    /\ response.code = 422
    /\ Len(response.body.detail) = 3

\* C5: whatever requests have been served, the two catalog lists are the
\* declared ones (three projects, the first being the task queue with FastAPI
\* in its stack; a non-empty experience list), and get_projects and
\* get_experience answer with them, in declaration order, without failing.
C5_CatalogIsFixed ==
    /\ PROJECTS = PROJECTS_DECL
    /\ EXPERIENCE = EXPERIENCE_DECL
    /\ Len(PROJECTS) = 3
    /\ PROJECTS[1].title = "Scalable Task Queue with Distributed Workers"
    /\ "FastAPI" \in Elements(PROJECTS[1].stack)
    /\ Len(EXPERIENCE) > 0
    /\ request.route = "/api/projects" =>
           response = [code |-> 200, body |-> PROJECTS_DECL]
    /\ request.route = "/api/experience" =>
           response = [code |-> 200, body |-> EXPERIENCE_DECL]

C5_Witness ==
    /\ request.route = "/api/projects"
    /\ response.code = 200
    /\ Len(response.body) = 3
    /\ response.body[1].title = "Scalable Task Queue with Distributed Workers"

\* C6: test_database never raises: whatever the persistence module does, it
\* answers with the six fields, a failure of a probe shows as a descriptive
\* text in the database field, and the catalog lists are left as they were.
C6_StatusNeverRaises ==
    IsTest =>
        /\ response.code = 200
        /\ DOMAIN response.body =
               {"backend", "database", "database_url", "database_name",
                "connection_status", "collections"}
        /\ (~(ListReached(request.collab) /\ ~Raised(request.collab.list_raises)) =>
               response.body.database.label \in
                   {ModuleNotFound, "Error: ", "Available but not initialized",
                    "Connected but Error: "})
        /\ PROJECTS = PROJECTS_DECL
        /\ EXPERIENCE = EXPERIENCE_DECL

C6_Witness ==
    /\ IsTest
    /\ ~Raised(request.collab.import_raises)
    /\ request.collab.name_raises.type = "RuntimeError"
    /\ response.code = 200
    /\ response.body.database.label = "Error: "


\* The parts of C7 that do not concern a failing import: a None db is
\* reported as not initialized without listing; a list that is returned is
\* reported as working, with the first min(10, n) names in their order; and
\* collections is empty in every outcome but that one.
C7_RestOfChain ==
    /\ (~Raised(request.collab.import_raises) /\ request.collab.db_is_none) =>
           /\ response.body.database = Plain("Available but not initialized")
           /\ Count(calls, CallList) = 0
    /\ (ListReached(request.collab) /\ ~Raised(request.collab.list_raises)) =>
           /\ response.body.database = Plain("Connected & Working")
           /\ Len(response.body.collections) =
                  (IF Len(request.collab.list_returns) < 10
                   THEN Len(request.collab.list_returns) ELSE 10)
           /\ \A i \in 1..Len(response.body.collections) :
                  response.body.collections[i] = request.collab.list_returns[i]
    /\ response.body.database.label # "Connected & Working" =>
           response.body.collections = <<>>

\* C7 as stated: whenever the persistence module cannot be obtained the
\* database field reads "module not found" and nothing is listed; then the
\* rest of the chain.
C7_Original ==
    IsTest =>
        /\ response.code = 200
        /\ Raised(request.collab.import_raises) =>
               /\ response.body.database = Plain(ModuleNotFound)
               /\ Count(calls, CallList) = 0
        /\ C7_RestOfChain

\* C7, amended: an import that raises ImportError gives "module not found";
\* an import that raises any other exception gives "Error: " followed by the
\* first min(50, n) characters of its message; nothing is listed in either
\* case; then the rest of the chain.
C7_ProbeOrder ==
    IsTest =>
        /\ response.code = 200
        /\ (Raised(request.collab.import_raises)
              /\ request.collab.import_raises.type \in {"ImportError", "ModuleNotFoundError"}) =>
               /\ response.body.database = Plain(ModuleNotFound)
               /\ Count(calls, CallList) = 0
        /\ (Raised(request.collab.import_raises)
              /\ request.collab.import_raises.type \notin {"ImportError", "ModuleNotFoundError"}) =>
               /\ response.body.database.label = "Error: "
               /\ response.body.database.detail =
                      SubSeq(request.collab.import_raises.msg, 1,
                             IF Len(request.collab.import_raises.msg) < 50
                             THEN Len(request.collab.import_raises.msg) ELSE 50)
               /\ Count(calls, CallList) = 0
        /\ C7_RestOfChain

C7_Witness ==
    /\ IsTest
    /\ ListReached(request.collab)
    /\ ~Raised(request.collab.list_raises)
    /\ Len(request.collab.list_returns) > 10
    /\ Len(response.body.collections) = 10
    /\ response.body.database = Plain("Connected & Working")

\* C8: when db.list_collection_names() raises, the database field is
\* "Connected but Error: " followed by the first min(50, n) characters of the
\* n-character message of the error, so by at most 50 of them.
C8_ListErrorTruncatedTo50 ==
    (IsTest /\ ListReached(request.collab) /\ Raised(request.collab.list_raises)) =>
        /\ response.code = 200
        /\ response.body.database.label = "Connected but Error: "
        /\ Len(response.body.database.detail) <= 50
        /\ Len(response.body.database.detail) =
               (IF Len(request.collab.list_raises.msg) < 50
                THEN Len(request.collab.list_raises.msg) ELSE 50)
        /\ \A i \in 1..Len(response.body.database.detail) :
               response.body.database.detail[i] = request.collab.list_raises.msg[i]

C8_Witness ==
    /\ IsTest
    /\ ListReached(request.collab)
    /\ Raised(request.collab.list_raises)
    /\ Len(request.collab.list_raises.msg) > 50
    /\ response.body.database.label = "Connected but Error: "
    /\ Len(response.body.database.detail) = 50

\* C9 as stated: database_url is the "set" flag exactly when DATABASE_URL is
\* set in the environment, and database_name likewise for DATABASE_NAME.
C9_Original ==
    IsTest =>
        /\ response.code = 200
        /\ response.body.database_url =
               IF request.environ.DATABASE_URL # None THEN "Set" ELSE "Not Set"
        /\ response.body.database_name =
               IF request.environ.DATABASE_NAME # None THEN "Set" ELSE "Not Set"

\* C9, amended: database_url is the "set" flag exactly when DATABASE_URL is
\* set to a non-empty value, and the "not set" flag otherwise (unset, or set
\* to the empty string); database_name likewise for DATABASE_NAME; whatever
\* the probes found and wrote.
C9_FlagsFollowEnvironment ==
    IsTest =>
        /\ response.code = 200
        /\ response.body.database_url =
               IF request.environ.DATABASE_URL \notin {None, ""}
               THEN "Set" ELSE "Not Set"
        /\ response.body.database_name =
               IF request.environ.DATABASE_NAME \notin {None, ""}
               THEN "Set" ELSE "Not Set"

C9_Witness ==
    /\ IsTest
    /\ ListReached(request.collab)
    /\ request.collab.name = "portfolio"
    /\ request.environ.DATABASE_URL = None
    /\ request.environ.DATABASE_NAME = "portfolio"
    /\ response.body.database_url = "Not Set"
    /\ response.body.database_name = "Set"

HandleUses == Count(calls, HasAttrName) + Count(calls, ReadName) + Count(calls, CallList)

\* C10 as stated: one submission calls create_document at most once, and one
\* diagnostic request uses the db handle for at most one access.
C10_Original ==
    /\ IsContact => Count(calls, CallCreate) <= 1
    /\ IsTest => HandleUses <= 1

\* C10, amended: one submission calls create_document at most once, also when
\* it raises; one diagnostic request calls db.list_collection_names() at most
\* once, also when it raises, and before that call reads the name attribute of
\* the handle (hasattr, then db.name), so that it uses the handle up to three
\* times; the other routes do not touch the persistence module.
C10_OneStoreCallPerRequest ==
    /\ IsContact =>
           /\ Count(calls, CallCreate) <= 1
           /\ Count(calls, ImportCreate) <= 1
           /\ Len(calls) <= 2
    /\ IsTest =>
           /\ Count(calls, CallList) <= 1
           /\ Count(calls, HasAttrName) <= 1
           /\ Count(calls, ReadName) <= 1
           /\ HandleUses <= 3
           /\ Len(calls) <= 4
    /\ (~IsContact /\ ~IsTest) => calls = <<>>

C10_Witness ==
    /\ IsContact
    /\ request.collab.create_raises.type = "RuntimeError"
    /\ Count(calls, CallCreate) = 1
    /\ response.body.stored_id = None

C10_WitnessStatus ==
    /\ IsTest
    /\ Raised(request.collab.list_raises)
    /\ HandleUses = 3
    /\ Count(calls, CallList) = 1

====
